---- MODULE Spec2Model ----
(***************************************************************************)
(* Model of the Roblox catalog proxy server.  Three server files exist:    *)
(*   "limited"  : src/unnamed/part_000 lines 1-329 (rate limited, 2.0.0)   *)
(*   "server"   : src/server.js                                            *)
(*   "category" : src/unnamed/part_000 lines 331-603 (adds /api/category)  *)
(* A process runs exactly one of them; `variant` says which.               *)
(*                                                                         *)
(* Node runs every callback to completion: the middleware and the          *)
(* synchronous prefix of a route handler (up to its first await) are one   *)
(* step; the continuation after delay() and the continuation after         *)
(* axios.get() are one step each.                                          *)
(***************************************************************************)
EXTENDS Integers, Sequences, FiniteSets, Bags, TLC

VARIABLES
    variant,        \* which server file the process runs
    now,            \* Date.now(), in milliseconds since process start
    requestCount,   \* part_000:13
    lastResetTime,  \* part_000:14
    inflight,       \* requests suspended in delay() or in axios.get()
    resp,           \* the response sent by the last step (NoResp if none)
    admitLog,       \* history: arrival times of the requests admitted in the last 60 s
    windowAdmits,   \* history: requests admitted since the last reset of requestCount
    windowArrivals, \* history: requests arrived since the last reset of requestCount (since the start where there is none)
    windowFirst,    \* history: arrival time of the first request since the last reset (-1: none)
    gate,           \* what the rate limiting middleware decided in the last step (NoGate if it did not run)
    call,           \* the outbound call issued by the last step (NoCall if none)
    ticks           \* number of clock advances so far

vars == <<variant, now, requestCount, lastResetTime, inflight, resp,
          admitLog, windowAdmits, windowArrivals, windowFirst, gate, call, ticks>>

----------------------------------------------------------------------------
(* Program constants *)

MAX_REQUESTS_PER_MINUTE == 10
WindowMs == 60000
MsPerSecond == 1000
DelayLimited == 2000
DelayBasic == 100

(* Bounds of the model *)

MaxTicks == 3
MaxInFlight == 2
MaxWindowArrivals == 11
MaxRequests == 2
MaxLimitLen == 3

Variants == {"limited", "server", "category"}

----------------------------------------------------------------------------
(* Math.ceil(a / b) for integers a and b > 0 *)
CeilDiv(a, b) == -((-a) \div b)

(* variation: the window length taken in seconds *)
WindowExpiredInSeconds(timePassed) == timePassed > WindowMs \div MsPerSecond

(* part_000:25  if (timePassed > 60000) *)
WindowExpired(timePassed) == timePassed > WindowMs

(* variation: > for >= *)
LimitReachedOffByOne(count) == count > MAX_REQUESTS_PER_MINUTE

(* part_000:30  if (requestCount >= MAX_REQUESTS_PER_MINUTE) *)
LimitReached(count) == count >= MAX_REQUESTS_PER_MINUTE

(* part_000:31,36  Math.ceil(waitTime/1000) with waitTime = 60000 - timePassed *)
RetryAfter(timePassed) == CeilDiv(WindowMs - timePassed, MsPerSecond)

----------------------------------------------------------------------------
(* Strings are sequences of one-character strings.  A parameter the request *)
(* does not carry is JavaScript's undefined.                                *)

Undefined == <<"undefined">>

Digits == {"0", "1", "2", "3", "4", "5", "6", "7", "8", "9"}
HexLetters == {"a", "b", "c", "d", "e", "f", "A", "B", "C", "D", "E", "F"}
WhiteSpace == {" "}

DigitVal(c) ==
    CASE c = "0" -> 0 [] c = "1" -> 1 [] c = "2" -> 2 [] c = "3" -> 3
      [] c = "4" -> 4 [] c = "5" -> 5 [] c = "6" -> 6 [] c = "7" -> 7
      [] c = "8" -> 8 [] c = "9" -> 9
      [] c \in {"a", "A"} -> 10 [] c \in {"b", "B"} -> 11
      [] c \in {"c", "C"} -> 12 [] c \in {"d", "D"} -> 13
      [] c \in {"e", "E"} -> 14 [] c \in {"f", "F"} -> 15

AllIn(s, S) == \A i \in 1..Len(s) : s[i] \in S

RECURSIVE TrimStart(_)
TrimStart(s) ==
    IF s # <<>> /\ s[1] \in WhiteSpace THEN TrimStart(Tail(s)) ELSE s

RECURSIVE TrimEnd(_)
TrimEnd(s) ==
    IF s # <<>> /\ s[Len(s)] \in WhiteSpace
    THEN TrimEnd(SubSeq(s, 1, Len(s) - 1)) ELSE s

(* String.prototype.trim *)
Trim(s) == TrimEnd(TrimStart(s))

(* ECMAScript StringToNumber: DecimalDigits *)
IsDigits(s) == Len(s) >= 1 /\ AllIn(s, Digits)

(* ExponentPart_opt *)
IsExponentOpt(s) ==
    \/ s = <<>>
    \/ /\ Len(s) >= 2
       /\ s[1] \in {"e", "E"}
       /\ LET t == Tail(s)
              u == IF t[1] \in {"+", "-"} THEN Tail(t) ELSE t
          IN  IsDigits(u)

(* DecimalDigits . DecimalDigits_opt | . DecimalDigits | DecimalDigits *)
IsMantissa(m) ==
    \/ IsDigits(m)
    \/ \E j \in 1..Len(m) :
          /\ m[j] = "."
          /\ AllIn(SubSeq(m, 1, j - 1), Digits)
          /\ AllIn(SubSeq(m, j + 1, Len(m)), Digits)
          /\ Len(m) >= 2

(* StrUnsignedDecimalLiteral *)
IsUnsignedDecimal(s) ==
    \/ s = <<"I", "n", "f", "i", "n", "i", "t", "y">>
    \/ \E i \in 1..Len(s) :
          /\ IsMantissa(SubSeq(s, 1, i))
          /\ IsExponentOpt(SubSeq(s, i + 1, Len(s)))

(* NonDecimalIntegerLiteral: 0x, 0o and 0b forms, unsigned *)
IsNonDecimalInteger(s) ==
    /\ Len(s) >= 3
    /\ s[1] = "0"
    /\ LET d == SubSeq(s, 3, Len(s))
       IN  \/ s[2] \in {"x", "X"} /\ AllIn(d, Digits \cup HexLetters)
           \/ s[2] \in {"o", "O"} /\ AllIn(d, {"0", "1", "2", "3", "4", "5", "6", "7"})
           \/ s[2] \in {"b", "B"} /\ AllIn(d, {"0", "1"})

(* StrNumericLiteral *)
IsNumericLiteral(s) ==
    \/ IsNonDecimalInteger(s)
    \/ IsUnsignedDecimal(s)
    \/ s # <<>> /\ s[1] \in {"+", "-"} /\ IsUnsignedDecimal(Tail(s))

(* The global isNaN applied to a string: Number(s) is NaN.  The empty and   *)
(* the all-blank string convert to 0.                                       *)
IsNaN(s) ==
    LET t == Trim(s) IN t # <<>> /\ ~IsNumericLiteral(t)

(* JavaScript truthiness of a string or undefined *)
Truthy(s) == s # Undefined /\ s # <<>>

(* The longest prefix of s made of characters of S *)
RECURSIVE TakeWhile(_, _)
TakeWhile(s, S) ==
    IF s # <<>> /\ s[1] \in S THEN <<s[1]>> \o TakeWhile(Tail(s), S) ELSE <<>>

(* The value of a digit string in the given radix *)
RECURSIVE DigitsValue(_, _)
DigitsValue(s, radix) ==
    IF s = <<>> THEN 0
    ELSE DigitsValue(SubSeq(s, 1, Len(s) - 1), radix) * radix + DigitVal(s[Len(s)])

NaN == [nan |-> TRUE, n |-> 0]
Num(k) == [nan |-> FALSE, n |-> k]

(* parseInt(string) with no radix argument: leading white space, a sign, an *)
(* optional 0x prefix, then the longest run of digits; the rest is ignored. *)
ParseInt(s) ==
    LET t     == TrimStart(s)
        neg   == t # <<>> /\ t[1] = "-"
        u     == IF t # <<>> /\ t[1] \in {"+", "-"} THEN Tail(t) ELSE t
        hex   == Len(u) >= 2 /\ u[1] = "0" /\ u[2] \in {"x", "X"}
        body  == IF hex THEN SubSeq(u, 3, Len(u)) ELSE u
        radix == IF hex THEN 16 ELSE 10
        ds    == TakeWhile(body, IF hex THEN Digits \cup HexLetters ELSE Digits)
    IN  IF ds = <<>> THEN NaN
        ELSE Num((IF neg THEN -1 ELSE 1) * DigitsValue(ds, radix))

(* part_000:47,60  const { limit = 30 } = req.query; parseInt(limit) *)
RequestedLimit(limit) ==
    IF limit = Undefined THEN Num(30) ELSE ParseInt(limit)

(* variation: a range test for the membership test *)
AllowedLimitInRange(limit) ==
    LET requestedLimit == RequestedLimit(limit)
    IN  IF ~requestedLimit.nan /\ requestedLimit.n >= 10 /\ requestedLimit.n <= 30
        THEN requestedLimit.n ELSE 30

(* part_000:59-63 and 506-510  the Limit sent upstream *)
AllowedLimit(limit) ==
    LET requestedLimit == RequestedLimit(limit)
    IN  IF ~requestedLimit.nan /\ requestedLimit.n \in {10, 28, 30}
        THEN requestedLimit.n ELSE 30

(* part_000:47  category = 'All' *)
CategoryOrDefault(category) ==
    IF category = Undefined THEN <<"A", "l", "l">> ELSE category

----------------------------------------------------------------------------
(* Requests, upstream outcomes and responses *)

Req(path, query, category, limit, assetId) ==
    [path |-> path, query |-> query, category |-> category,
     limit |-> limit, assetId |-> assetId]

NoReq == Req("none", Undefined, Undefined, Undefined, Undefined)

(* What axios.get() ends with: a 2xx response (data says whether            *)
(* response.data.data is truthy), an error carrying error.response.status,  *)
(* a timeout (error.code ECONNABORTED, no error.response) or a network      *)
(* error (no error.response either).                                        *)
Outcome(kind, status, data) == [kind |-> kind, status |-> status, data |-> data]

NoOutcome == Outcome("none", 0, FALSE)

Outcomes ==
    {Outcome("ok", 200, TRUE), Outcome("ok", 200, FALSE),
     Outcome("timeout", 0, FALSE)}
    \cup {Outcome("http", st, FALSE) : st \in {400, 404, 429, 500}}

Response(status, error, retryAfter, body) ==
    [status |-> status, error |-> error, retryAfter |-> retryAfter, body |-> body]

(* res.status(st).json({error: ...}) *)
Failure(status, error) == Response(status, error, -1, "error")

(* res.json(...) *)
Success(body) == Response(200, "", -1, body)

(* The response sent, with the request it answers, the number of outbound   *)
(* calls made for that request, whether it went through delay(), and the    *)
(* upstream outcome it reports.                                             *)
Sent(r, req, calls, delayed, outcome) ==
    [status |-> r.status, error |-> r.error, retryAfter |-> r.retryAfter,
     body |-> r.body, req |-> req, calls |-> calls, delayed |-> delayed,
     upstream |-> outcome]

NoResp == Sent(Response(0, "", -1, ""), NoReq, 0, FALSE, NoOutcome)

(* What the rate limiting middleware saw and decided: the time passed since *)
(* lastResetTime, whether it reset the window, the count it compared, its   *)
(* decision, the request's rank among the arrivals of the window, and the   *)
(* time since the first request of the window (-1: this is the first).      *)
Gate(ran, timePassed, expired, count, admitted, seq, sinceFirst) ==
    [ran |-> ran, timePassed |-> timePassed, expired |-> expired, count |-> count,
     admitted |-> admitted, seq |-> seq, sinceFirst |-> sinceFirst]

NoGate == Gate(FALSE, 0, FALSE, 0, FALSE, 0, -1)

Call(api, keyword, category, limit, sort, assetId) ==
    [api |-> api, keyword |-> keyword, category |-> category, limit |-> limit,
     sort |-> sort, assetId |-> assetId]

NoCall == Call("none", Undefined, Undefined, 0, "", Undefined)

----------------------------------------------------------------------------
(* Routing *)

(* The handler Express runs for a path: the routes a file does not register *)
(* fall through to its 404 handler.                                         *)
HandlerOf(v, path) ==
    CASE path \in {"search", "item", "popular", "health", "root"} -> path
      [] path = "itemCatalog" -> IF v = "limited" THEN path ELSE "notFound"
      [] path = "category" -> IF v = "category" THEN path ELSE "notFound"
      [] OTHER -> "notFound"

(* The handlers that await delay() and axios.get() *)
AsyncHandlers == {"search", "item", "itemCatalog", "popular", "category"}

(* part_000:57 delay(2000); server.js:29 and part_000:359 delay(100) *)
DelayMs(v) == IF v = "limited" THEN DelayLimited ELSE DelayBasic

(* variation: the trim() test left out *)
QueryInvalidNoTrim(query) == ~Truthy(query)

(* part_000:49  if (!query || query.trim() === '') *)
QueryInvalid(query) == ~Truthy(query) \/ Trim(query) = <<>>

(* part_000:120  if (!assetId || isNaN(assetId)) *)
AssetIdInvalid(assetId) == ~Truthy(assetId) \/ IsNaN(assetId)

(* The validation at the head of a handler *)
Invalid(handler, req) ==
    CASE handler = "search" -> QueryInvalid(req.query)
      [] handler \in {"item", "itemCatalog"} -> AssetIdInvalid(req.assetId)
      [] OTHER -> FALSE

(* variation: the handler's validation ahead of the middleware *)
DispatchValidateFirst(denied, invalid) ==
    IF invalid THEN "reject" ELSE IF denied THEN "deny" ELSE "handle"

(* part_000:21-42 then 45-53: the rate limiting middleware is registered    *)
(* before the routes, so it decides first; the handler validates after.     *)
Dispatch(denied, invalid) ==
    IF denied THEN "deny" ELSE IF invalid THEN "reject" ELSE "handle"

(* The 400 a handler answers an invalid request with *)
Rejection(handler) ==
    IF handler = "search" THEN Failure(400, "Search query is required")
    ELSE Failure(400, "Valid asset ID is required")

(* part_000:33-37 *)
Denial(timePassed) ==
    Response(429, "Rate limit exceeded", RetryAfter(timePassed), "error")

(* The handlers that answer without awaiting anything *)
Immediate(handler) ==
    CASE handler = "health" -> Success("health")
      [] handler = "root" -> Success("root")
      [] OTHER -> Failure(404, "Endpoint not found")

----------------------------------------------------------------------------
(* What each handler answers once axios.get() has ended with outcome o *)

Throttled ==
    Failure(429, "Roblox API rate limit exceeded")

(* The list handlers: part_000:79-96, 243-257, 522-535 *)
ListBody(o) == IF o.data THEN Success("items") ELSE Success("empty")

(* part_000:98-112 (limited), server.js:69-82 and part_000:399-412 *)
SearchReply(v, o) ==
    IF o.kind = "ok" THEN ListBody(o)
    ELSE IF v = "limited"
         THEN IF o.kind = "http" /\ o.status = 429 THEN Throttled
              ELSE Failure(500, "Failed to search catalog")
         ELSE IF o.kind = "timeout"
              THEN Failure(408, "Request timeout - Roblox API is slow to respond")
              ELSE Failure(500, "Failed to search catalog")

(* variation: only an upstream 404 is answered 404 *)
ItemReplyNotFoundOnly(v, o) ==
    IF o.kind = "ok" THEN Success("item")
    ELSE IF v = "limited" /\ o.kind = "http" /\ o.status = 429 THEN Throttled
    ELSE IF o.kind = "http" /\ o.status = 404
         THEN Failure(404, "Item not found")
         ELSE Failure(500, "Failed to get item details")

(* part_000:141-183 (limited), server.js:105-120 and part_000:435-450 *)
ItemReply(v, o) ==
    IF o.kind = "ok" THEN Success("item")
    ELSE IF v = "limited"
         THEN IF o.kind = "http" /\ o.status = 429 THEN Throttled
              ELSE IF o.kind = "http" /\ o.status = 400
                   THEN Failure(404, "Item not found or invalid asset ID")
              ELSE IF o.kind = "http" /\ o.status = 404
                   THEN Failure(404, "Item not found")
              ELSE Failure(500, "Failed to get item details")
         ELSE IF o.kind = "http" /\ o.status = 404
              THEN Failure(404, "Item not found")
              ELSE Failure(500, "Failed to get item details")

(* part_000:212-220 *)
ItemCatalogReply(v, o) ==
    IF o.kind = "ok" THEN Success("raw")
    ELSE Failure(500, "Failed to get catalog item details")

(* part_000:243-273 (limited), server.js:140-162 and part_000:470-492 *)
PopularReply(v, o) ==
    IF o.kind = "ok" THEN ListBody(o)
    ELSE IF v = "limited" /\ o.kind = "http" /\ o.status = 429 THEN Throttled
    ELSE Failure(500, "Failed to get popular items")

(* part_000:522-543 *)
CategoryReply(v, o) ==
    IF o.kind = "ok" THEN ListBody(o)
    ELSE Failure(500, "Failed to get category items")

Reply(v, handler, o) ==
    CASE handler = "search" -> SearchReply(v, o)
      [] handler = "item" -> ItemReply(v, o)
      [] handler = "itemCatalog" -> ItemCatalogReply(v, o)
      [] handler = "popular" -> PopularReply(v, o)
      [] handler = "category" -> CategoryReply(v, o)

All == <<"A", "l", "l">>

(* The axios.get() each handler issues after its delay() *)
UpstreamCall(v, handler, req) ==
    CASE handler = "search" ->
            Call("catalog/search", Trim(req.query), CategoryOrDefault(req.category),
                 AllowedLimit(req.limit), "Relevance", Undefined)
      [] handler = "item" ->
            Call(IF v = "limited" THEN "economy/details" ELSE "catalog/details",
                 Undefined, Undefined, 0, "", req.assetId)
      [] handler = "itemCatalog" ->
            Call("catalog/details", Undefined, Undefined, 0, "", req.assetId)
      [] handler = "popular" ->
            Call("catalog/search", Undefined, All, 30, "Popular", Undefined)
      [] handler = "category" ->
            Call("catalog/search", Undefined, req.category,
                 AllowedLimit(req.limit), "Popular", Undefined)

----------------------------------------------------------------------------
(* State *)

Suspended(req, pc, wake) == [req |-> req, pc |-> pc, wake |-> wake]

InFlight == BagToSet(inflight)

(* setTimeout: at time t the timers due by then have fired (wake 0: the     *)
(* callback is queued); the others are still pending.                       *)
Fire(r, t) ==
    IF r.pc = "delay" /\ r.wake # 0 /\ r.wake <= t
    THEN Suspended(r.req, "delay", 0) ELSE r

RECURSIVE FireAll(_, _)
FireAll(bag, t) ==
    IF bag = EmptyBag THEN EmptyBag
    ELSE LET r == CHOOSE x \in BagToSet(bag) : TRUE
             one == SetToBag({r})
         IN  FireAll(bag (-) one, t) (+) SetToBag({Fire(r, t)})

Init ==
    /\ variant \in Variants
    /\ now = 0
    /\ requestCount = 0
    /\ lastResetTime = 0
    /\ inflight = EmptyBag
    /\ resp = NoResp
    /\ admitLog = <<>>
    /\ windowAdmits = 0
    /\ windowArrivals = 0
    /\ windowFirst = -1
    /\ gate = NoGate
    /\ call = NoCall
    /\ ticks = 0

(* The entries of the admission history younger than 60 s at time t *)
Recent(log, t) == SelectSeq(log, LAMBDA a : a > t - WindowMs)

(* The clock advances by d ms *)
Tick(d) ==
    /\ ticks < MaxTicks
    /\ ticks' = ticks + 1
    /\ now' = now + d
    /\ inflight' = FireAll(inflight, now')
    /\ admitLog' = Recent(admitLog, now')
    /\ resp' = NoResp
    /\ gate' = NoGate
    /\ call' = NoCall
    /\ UNCHANGED <<variant, requestCount, lastResetTime,
                   windowAdmits, windowArrivals, windowFirst>>

(* A request arrives: the rate limiting middleware (part_000:21-42, only in *)
(* the limited server), then the matched handler up to its first await.     *)
(* cap bounds the requests explored per window (per run where the server    *)
(* has no window).                                                          *)
Receive(req, cap) ==
    LET limited    == variant = "limited"
        timePassed == now - lastResetTime
        expired    == limited /\ WindowExpired(timePassed)
        count      == IF expired THEN 0 ELSE requestCount
        denied     == limited /\ LimitReached(count)
        handler    == HandlerOf(variant, req.path)
        stage      == Dispatch(denied, Invalid(handler, req))
        admitted   == stage # "deny"
        suspends   == stage = "handle" /\ handler \in AsyncHandlers
        arrivals   == (IF expired THEN 0 ELSE windowArrivals) + 1
    IN  /\ suspends => BagCardinality(inflight) < MaxInFlight
        /\ arrivals <= cap
        /\ lastResetTime' = IF expired THEN now ELSE lastResetTime
        /\ requestCount' = IF limited /\ admitted THEN count + 1 ELSE count
        /\ inflight' = IF suspends
                       THEN inflight (+) SetToBag({Suspended(req, "delay", now + DelayMs(variant))})
                       ELSE inflight
        /\ resp' = CASE stage = "deny" -> Sent(Denial(timePassed), req, 0, FALSE, NoOutcome)
                     [] stage = "reject" -> Sent(Rejection(handler), req, 0, FALSE, NoOutcome)
                     [] suspends -> NoResp
                     [] OTHER -> Sent(Immediate(handler), req, 0, FALSE, NoOutcome)
        /\ call' = NoCall
        /\ windowArrivals' = arrivals
        /\ IF limited
           THEN /\ gate' = Gate(TRUE, timePassed, expired, count, admitted, arrivals,
                                IF windowFirst = -1 THEN -1 ELSE now - windowFirst)
                /\ windowAdmits' = (IF expired THEN 0 ELSE windowAdmits)
                                   + (IF admitted THEN 1 ELSE 0)
                /\ windowFirst' = IF expired \/ windowFirst = -1 THEN now ELSE windowFirst
                /\ admitLog' = IF admitted THEN Append(admitLog, now) ELSE admitLog
           ELSE /\ gate' = NoGate
                /\ UNCHANGED <<windowAdmits, windowFirst, admitLog>>
        /\ UNCHANGED <<variant, now, ticks>>

(* The timer of delay() has fired: the handler resumes and issues its       *)
(* axios.get().                                                             *)
DelayDone(r) ==
    /\ r.pc = "delay"
    /\ r.wake = 0
    /\ inflight' = (inflight (-) SetToBag({r}))
                   (+) SetToBag({Suspended(r.req, "upstream", 0)})
    /\ call' = UpstreamCall(variant, HandlerOf(variant, r.req.path), r.req)
    /\ resp' = NoResp
    /\ gate' = NoGate
    /\ UNCHANGED <<variant, now, requestCount, lastResetTime, admitLog,
                   windowAdmits, windowArrivals, windowFirst, ticks>>

(* axios.get() ends with outcome o: the rest of the handler, or its catch   *)
(* block, answers.                                                          *)
UpstreamDone(r, o) ==
    /\ r.pc = "upstream"
    /\ inflight' = inflight (-) SetToBag({r})
    /\ resp' = Sent(Reply(variant, HandlerOf(variant, r.req.path), o), r.req, 1, TRUE, o)
    /\ call' = NoCall
    /\ gate' = NoGate
    /\ UNCHANGED <<variant, now, requestCount, lastResetTime, admitLog,
                   windowAdmits, windowArrivals, windowFirst, ticks>>

----------------------------------------------------------------------------
(* The requests and clock steps explored *)

Queries == {Undefined, <<>>, <<" ">>, <<"h">>, <<" ", "h">>}
Limits == {Undefined, <<"1", "5">>, <<"2", "8">>}
AssetIds == {<<"a">>, <<"7">>, <<"1", ".", "5">>}
Hats == <<"H">>

Requests ==
    {Req("search", q, Undefined, Undefined, Undefined) : q \in Queries}
    \cup {Req("search", <<"h">>, Undefined, l, Undefined) : l \in Limits}
    \cup {Req("item", Undefined, Undefined, Undefined, a) : a \in AssetIds}
    \cup {Req("itemCatalog", Undefined, Undefined, Undefined, a) : a \in {<<"a">>, <<"7">>}}
    \cup {Req("category", Undefined, Hats, l, Undefined) : l \in Limits}
    \cup {Req(p, Undefined, Undefined, Undefined, Undefined) :
             p \in {"popular", "health", "root", "other"}}

(* Clock steps: long enough for delay() to end, and long enough for the     *)
(* window to expire.                                                        *)
ClockSteps == {2000, 60001}

(* Clock steps around the end of the window *)
FineSteps == {1, 1000, 59000}

(* Every server file under every request and every upstream outcome, a few  *)
(* requests per window.                                                     *)
Next ==
    \/ \E d \in ClockSteps : Tick(d)
    \/ \E req \in Requests : Receive(req, MaxRequests)
    \/ \E r \in InFlight : DelayDone(r)
    \/ \E r \in InFlight, o \in Outcomes : UpstreamDone(r, o)

Spec == Init /\ [][Next]_vars

InitLimited == Init /\ variant = "limited"

(* The servers under load: enough requests to exhaust the limited server's  *)
(* window, valid and invalid, while earlier ones are suspended.             *)
LoadRequests ==
    {Req("search", q, Undefined, Undefined, Undefined) : q \in {Undefined, <<" ">>, <<"h">>}}
    \cup {Req("health", Undefined, Undefined, Undefined, Undefined)}

LoadOutcomes == {Outcome("ok", 200, TRUE), Outcome("http", 429, FALSE)}

NextLoad ==
    \/ \E d \in ClockSteps : Tick(d)
    \/ \E req \in LoadRequests : Receive(req, MaxWindowArrivals)
    \/ \E r \in InFlight : DelayDone(r)
    \/ \E r \in InFlight, o \in LoadOutcomes : UpstreamDone(r, o)

SpecLoad == Init /\ [][NextLoad]_vars

(* The rate limiter alone: the limited server under requests answered at    *)
(* once, with the clock stepping around the end of the window.              *)
NextGov ==
    \/ \E d \in FineSteps : Tick(d)
    \/ Receive(Req("health", Undefined, Undefined, Undefined, Undefined), MaxWindowArrivals)

SpecGov == InitLimited /\ [][NextGov]_vars

(* The limit parameter alone: search and category requests, one at a time,  *)
(* under every limit string of up to MaxLimitLen characters; the clock      *)
(* advances to fire the timer of delay().                                   *)
LimitChars == {"0", "1", "2", "3", "8", "a", "x", " ", "-"}

LimitStrings ==
    {Undefined} \cup UNION {[1..k -> LimitChars] : k \in 0..MaxLimitLen}

LimitRequests ==
    {Req("search", <<"h">>, Undefined, l, Undefined) : l \in LimitStrings}
    \cup {Req("category", Undefined, Hats, l, Undefined) : l \in LimitStrings}

NextLimit ==
    \/ (\E r \in InFlight : r.pc = "delay" /\ r.wake # 0) /\ Tick(DelayLimited)
    \/ /\ inflight = EmptyBag
       /\ resp = NoResp
       /\ \E req \in LimitRequests : Receive(req, MaxRequests)
    \/ \E r \in InFlight : DelayDone(r)
    \/ \E r \in InFlight : UpstreamDone(r, Outcome("ok", 200, TRUE))

SpecLimit == Init /\ [][NextLimit]_vars

(* The item-detail handler of the limited server under every kind of        *)
(* upstream failure.                                                        *)
ErrorStatuses == {400, 401, 403, 404, 429, 500, 503}

ErrorOutcomes ==
    {Outcome("ok", 200, TRUE), Outcome("timeout", 0, FALSE)}
    \cup {Outcome("http", st, FALSE) : st \in ErrorStatuses}

ItemRequests ==
    {Req("item", Undefined, Undefined, Undefined, a) : a \in {<<"7">>, <<"1", "2">>}}

NextErrors ==
    \/ \E d \in ClockSteps : Tick(d)
    \/ \E req \in ItemRequests : Receive(req, MaxRequests)
    \/ \E r \in InFlight : DelayDone(r)
    \/ \E r \in InFlight, o \in ErrorOutcomes : UpstreamDone(r, o)

SpecErrors == InitLimited /\ [][NextErrors]_vars

(* The limited server under requests that no handler suspends on: /health,  *)
(* /, an unmatched route, and a search and an item request that fail        *)
(* validation.                                                              *)
CountRequests ==
    {Req(p, Undefined, Undefined, Undefined, Undefined) : p \in {"health", "root", "other", "search"}}
    \cup {Req("item", Undefined, Undefined, Undefined, <<"a">>)}

NextCount ==
    \/ \E d \in ClockSteps : Tick(d)
    \/ \E req \in CountRequests : Receive(req, MaxWindowArrivals)

SpecCount == InitLimited /\ [][NextCount]_vars

----------------------------------------------------------------------------
(* Properties *)

LocalDenial(r) == r.status = 429 /\ r.error = "Rate limit exceeded"

UpstreamThrottled(r) == r.status = 429 /\ r.error = "Roblox API rate limit exceeded"

(* A query that is missing or made of blanks only *)
Blank(q) == q = Undefined \/ \A i \in 1..Len(q) : q[i] = " "

(* A decimal numeral of a positive integer *)
WellFormedPositiveInt(a) ==
    /\ a # Undefined
    /\ Len(a) >= 1
    /\ \A i \in 1..Len(a) : a[i] \in Digits
    /\ \E i \in 1..Len(a) : a[i] # "0"

(* The number of copies of r suspended *)
Copies(r) == CopiesIn(r, inflight)

(* C1: in a window that started with count 0, the first 10 requests are all *)
(* allowed and the 11th is denied with 429 and a retryAfter > 0.            *)
C1_TenAllowedEleventhDenied ==
    gate.ran =>
        /\ gate.seq <= MAX_REQUESTS_PER_MINUTE => gate.admitted
        /\ gate.seq = MAX_REQUESTS_PER_MINUTE + 1 =>
              /\ ~gate.admitted
              /\ resp.status = 429
              /\ resp.retryAfter > 0

(* C2: a request arriving 60 s or more after the first request of the       *)
(* current window is allowed, whatever the count was (the counter having    *)
(* been reset).                                                             *)
C2_ResetAfterSixtySeconds ==
    gate.ran /\ gate.sinceFirst >= WindowMs => gate.admitted

(* C3: requestCount never exceeds 10, it equals the number of requests      *)
(* admitted since the last reset, and that number never exceeds 10, with    *)
(* requests suspended in delay() and in the upstream call in between.       *)
C3_NoOverAdmission ==
    /\ requestCount <= MAX_REQUESTS_PER_MINUTE
    /\ windowAdmits <= MAX_REQUESTS_PER_MINUTE
    /\ requestCount = windowAdmits

(* C3 witness: the window is exhausted and a request is denied while one    *)
(* request is suspended in delay() and another awaits the upstream.         *)
C3_Witness ==
    /\ requestCount = MAX_REQUESTS_PER_MINUTE
    /\ LocalDenial(resp)
    /\ \E r \in InFlight : r.pc = "delay"
    /\ \E r \in InFlight : r.pc = "upstream"

(* C4 as stated: at most 10 requests are admitted in any interval           *)
(* (t - 60 s, t].                                                           *)
C4_RollingWindowBound == Len(admitLog) <= MAX_REQUESTS_PER_MINUTE

(* C4 amended: the window is fixed, not rolling: at most 10 requests are    *)
(* admitted since lastResetTime, and at most 20 in any interval             *)
(* (t - 60 s, t].                                                           *)
C4_FixedWindowBound ==
    /\ Len(SelectSeq(admitLog, LAMBDA a : a >= lastResetTime)) <= MAX_REQUESTS_PER_MINUTE
    /\ Len(admitLog) <= 2 * MAX_REQUESTS_PER_MINUTE

(* C4 witness: 20 requests admitted within 60 s, across a reset *)
C4_Witness == Len(admitLog) = 2 * MAX_REQUESTS_PER_MINUTE

(* C5: two identical searches issued within the cache TTL trigger one       *)
(* upstream call together.  Two requests suspended together were issued     *)
(* within delay plus timeout (17 s) of each other, well within the TTL: no  *)
(* two identical searches both await an upstream call of their own.         *)
C5_OneUpstreamCallPerSearch ==
    \A r \in InFlight :
        r.req.path = "search" /\ r.pc = "upstream" => Copies(r) <= 1

(* C6 as stated: validation comes before the rate check, so a search that   *)
(* fails validation is answered 400.                                        *)
C6_ValidateBeforeRateCheck ==
    resp.req.path = "search" /\ Blank(resp.req.query) => resp.status = 400

(* C6 amended: in the limited server the rate check comes first: once the   *)
(* window is exhausted every request, valid or not, is answered the local   *)
(* 429; a request answered 400 was admitted and counted before it was       *)
(* validated; a search that fails validation gets one of the two answers.   *)
C6_RateCheckBeforeValidate ==
    /\ gate.ran /\ gate.count >= MAX_REQUESTS_PER_MINUTE =>
          LocalDenial(resp) /\ requestCount = gate.count
    /\ variant = "limited" /\ resp.status = 400 =>
          /\ gate.ran
          /\ gate.count < MAX_REQUESTS_PER_MINUTE
          /\ requestCount = gate.count + 1
    /\ resp.req.path = "search" /\ Blank(resp.req.query) =>
          resp.status = 400 \/ LocalDenial(resp)

(* C6 witness: a search without query answered by the rate limiter *)
C6_Witness ==
    resp.req.path = "search" /\ Blank(resp.req.query) /\ LocalDenial(resp)

(* C7: a step that answers with the local 429 or with the 400 of a search   *)
(* suspends nothing and calls nothing; a search whose query is missing or   *)
(* blank is answered at once with one of the two, and is never suspended.   *)
C7_ShortCircuit ==
    [][/\ LocalDenial(resp') \/ (resp'.status = 400 /\ resp'.req.path = "search") =>
            /\ inflight' = inflight
            /\ call' = NoCall
            /\ resp'.calls = 0
            /\ ~resp'.delayed
       /\ resp'.req.path = "search" /\ Blank(resp'.req.query) =>
            resp'.status = 400 \/ LocalDenial(resp')
       /\ \A r \in BagToSet(inflight') :
            r.req.path = "search" => ~Blank(r.req.query)
       /\ call'.api = "catalog/search" /\ call'.sort = "Relevance" =>
            call'.keyword # <<>>]_vars

(* C7 witness: a search with a blank query answered 400 while another       *)
(* search is suspended.                                                     *)
C7_Witness ==
    /\ resp.status = 400
    /\ resp.req.path = "search"
    /\ resp.req.query = <<" ">>
    /\ \E r \in InFlight : r.req.path = "search"

(* C8: an item-detail request whose assetId is not a well-formed positive   *)
(* integer is answered 400 with no upstream call: none is ever suspended.   *)
C8_OnlyPositiveIntegersFetched ==
    /\ \A r \in InFlight :
          r.req.path = "item" => WellFormedPositiveInt(r.req.assetId)
    /\ resp.req.path = "item" /\ ~WellFormedPositiveInt(resp.req.assetId) =>
          (resp.status = 400 \/ LocalDenial(resp)) /\ resp.calls = 0

(* C9: an upstream 429 on a search, item-detail, item-catalog or popular    *)
(* request is answered 429 with the upstream-throttled error.               *)
C9_UpstreamThrottledDistinct ==
    /\ resp.upstream.kind = "http"
    /\ resp.upstream.status = 429
    /\ resp.req.path \in {"search", "item", "itemCatalog", "popular"}
    => UpstreamThrottled(resp) /\ ~LocalDenial(resp)

(* C10: an item-detail request is answered 404 on an upstream 404 and 408   *)
(* on an upstream timeout.                                                  *)
C10_ItemStatusMapping ==
    resp.req.path = "item" =>
        /\ resp.upstream.kind = "http" /\ resp.upstream.status = 404 => resp.status = 404
        /\ resp.upstream.kind = "timeout" => resp.status = 408

(* The limit of the request whose upstream call the last step issued *)
CalledFor == {r.req.limit : r \in {x \in InFlight : x.pc = "upstream"}}

(* The last step issued the upstream call of a search or category handler *)
LimitCall ==
    call.api = "catalog/search" /\ (call.sort = "Relevance" \/ call.category # All)

RECURSIVE StripLeading(_, _)
StripLeading(s, c) ==
    IF s # <<>> /\ s[1] = c THEN StripLeading(Tail(s), c) ELSE s

(* l, after leading blanks and zeros, starts with the numeral e, followed   *)
(* by the end of l or by a character that is no digit                       *)
LeadsWith(l, e) ==
    LET t == StripLeading(l, " ")
        u == StripLeading(t, "0")
    IN  /\ ~(Len(t) >= 2 /\ t[1] = "0" /\ t[2] \in {"x", "X"})
        /\ Len(u) >= Len(e)
        /\ SubSeq(u, 1, Len(e)) = e
        /\ Len(u) > Len(e) => u[Len(e) + 1] \notin Digits

(* l is a 0x-prefixed numeral, after leading blanks and a sign *)
HexPrefixed(l) ==
    LET t == StripLeading(l, " ")
        u == IF t # <<>> /\ t[1] = "-" THEN Tail(t) ELSE t
    IN  Len(u) >= 2 /\ u[1] = "0" /\ u[2] \in {"x", "X"}

(* l is the decimal numeral e, leading zeros and surrounding blanks aside *)
IsNumeral(l, e) ==
    LET t == StripLeading(SelectSeq(l, LAMBDA c : c # " "), "0")
    IN  /\ t = e
        /\ \A i, j \in 1..Len(l) :
              i < j /\ l[i] # " " /\ l[j] # " " =>
                 \A k \in i..j : l[k] # " "

Ten == <<"1", "0">>
TwentyEight == <<"2", "8">>
Thirty == <<"3", "0">>

ItemUpstreamError ==
    resp.req.path = "item" /\ resp.upstream.kind = "http"

(* C12 as stated: an upstream 429 is answered "upstream throttled", an      *)
(* upstream 404 "not found", every other upstream status a generic 500, and *)
(* no upstream status other than 404 is answered 404.                       *)
C12_ExhaustiveExclusive ==
    ItemUpstreamError =>
        /\ resp.upstream.status = 429 => UpstreamThrottled(resp)
        /\ resp.upstream.status = 404 => resp.status = 404
        /\ resp.upstream.status \notin {404, 429} => resp.status = 500
        /\ resp.status = 404 => resp.upstream.status = 404

(* C12 amended: the item-detail handler of the limited server answers an    *)
(* upstream 429 "upstream throttled", an upstream 404 and an upstream 400   *)
(* with 404, and every other upstream status with a generic 500; no         *)
(* upstream status other than 400 and 404 is answered 404.                  *)
C12_ItemErrorClassification ==
    ItemUpstreamError /\ variant = "limited" =>
        /\ resp.upstream.status = 429 => UpstreamThrottled(resp)
        /\ resp.upstream.status = 404 =>
              resp.status = 404 /\ resp.error = "Item not found"
        /\ resp.upstream.status = 400 =>
              resp.status = 404 /\ resp.error = "Item not found or invalid asset ID"
        /\ resp.upstream.status \notin {400, 404, 429} =>
              resp.status = 500 /\ resp.error = "Failed to get item details"
        /\ resp.status = 404 => resp.upstream.status \in {400, 404}

(* C12 witness: an upstream 400 answered 404 *)
C12_Witness ==
    /\ ItemUpstreamError
    /\ resp.upstream.status = 400
    /\ resp.status = 404

(* What the middleware decides for a request arriving at time t, the state  *)
(* being otherwise as it is now                                             *)
AdmittedAt(t) ==
    WindowExpired(t - lastResetTime) \/ ~LimitReached(requestCount)

(* C13: a denial at elapsed time e carries retryAfter =                     *)
(* ceil((60000 - e) / 1000), which is between 0 and 60, and the same        *)
(* request retried exactly retryAfter seconds later, nothing else having    *)
(* changed, is admitted.                                                    *)
C13_RetryAfterSufficient ==
    gate.ran /\ ~gate.admitted =>
        /\ MsPerSecond * resp.retryAfter >= WindowMs - gate.timePassed
        /\ MsPerSecond * (resp.retryAfter - 1) < WindowMs - gate.timePassed
        /\ 0 <= resp.retryAfter
        /\ resp.retryAfter <= 60
        /\ AdmittedAt(now + MsPerSecond * resp.retryAfter)

(* The response a request gets when the governor lets it through: /health   *)
(* and / answer 200, an unmatched route 404, a failed validation 400        *)
NormalStatus(req) ==
    CASE req.path \in {"health", "root"} -> 200
      [] req.path = "other" -> 404
      [] OTHER -> 400

(* One arrival at the limited server: the governor counts the request       *)
(* whatever its route and validity, or, the count having reached 10 within  *)
(* the window, answers it with the local 429 and leaves requestCount and    *)
(* lastResetTime as they were.                                              *)
CountedOrDenied ==
    gate'.ran /\ resp'.req \in CountRequests =>
        /\ requestCount >= MAX_REQUESTS_PER_MINUTE /\ now - lastResetTime < WindowMs =>
              LocalDenial(resp')
        /\ LocalDenial(resp') =>
              /\ requestCount' = requestCount
              /\ lastResetTime' = lastResetTime
              /\ requestCount >= MAX_REQUESTS_PER_MINUTE
        /\ ~LocalDenial(resp') =>
              /\ requestCount' = requestCount + 1 \/ requestCount' = 1
              /\ requestCount' = 1 /\ requestCount # 0 => lastResetTime' = now
              /\ resp'.status = NormalStatus(resp'.req)

(* C14: requests to /health, /, unmatched routes and requests that fail     *)
(* validation each increment requestCount; once the count has reached 10    *)
(* within a window each of them is answered with the local 429; a denied    *)
(* request leaves requestCount and lastResetTime unchanged.                 *)
C14_EveryRequestCounted == [][CountedOrDenied]_vars

(* C14 witness: an unmatched route answered with the local 429, the count   *)
(* staying at 10                                                            *)
C14_Witness ==
    /\ resp.req.path = "other"
    /\ LocalDenial(resp)
    /\ requestCount = MAX_REQUESTS_PER_MINUTE

====
